---- MODULE Spec2Model ----
(***************************************************************************)
(* Model of the resumable batch classifier 2_detect_tents_v3.py: the load/ *)
(* resume step, the thread pool running fetch_image, the main loop that    *)
(* consumes completed fetches, batches them for predict_batch and writes   *)
(* checkpoints with rotate_and_save / atomic_save_csv, the shutdown flag   *)
(* set by the signal handler, and re-running the script on the files the   *)
(* previous run left behind.                                               *)
(*                                                                         *)
(* pandas semantics assumed (pandas 1.x / 2.x): to_csv writes NaN and ''   *)
(* as an empty field, read_csv reads an empty field as NaN and a numeric   *)
(* field as a float, and df.at[...] = <str> on a float column upcasts the  *)
(* column instead of raising.                                              *)
(***************************************************************************)
EXTENDS Integers, Sequences, FiniteSets, TLC

\* ------------------------------------------------------------------------
\* Bounds and configuration
\* ------------------------------------------------------------------------

\* number of rows of the input chunk (bound of the model)
NumRows == 3

\* NUM_WORKERS, BATCH_SIZE and SAVE_EVERY are read from the environment
\* (lines 25-27): they are part of the state (env); the runs over NumRows rows
\* use small values
SmallEnv == [NUM_WORKERS |-> 2, BATCH_SIZE |-> 2, SAVE_EVERY |-> 2]

\* number of tiles of a run of the tile scripts (bound of the model)
NumTiles == 3

\* largest number of features of a tile that pass the filters (bound of the model)
MaxFeatures == 2

MAX_RETRIES == 3
\* BACKOFF_BASE = 1.5 = BACKOFF_NUM / BACKOFF_DEN
BACKOFF_NUM == 3
BACKOFF_DEN == 2

URL_COL == "url"

\* ------------------------------------------------------------------------
\* Paths
\* ------------------------------------------------------------------------

INPUT_CSV == <<"INPUT_CSV">>
INTERMEDIATE_CSV == <<"INTERMEDIATE_CSV">>
OUTPUT_CSV == <<"OUTPUT_CSV">>

\* path + ".tmp" (atomic_save_csv)
TmpPath(path) == Append(path, "tmp")
\* f"{path}.{ts}" (rotate_and_save); the timestamp is abstracted to "ts"
BkpPath(path) == Append(path, "ts")

\* the output file of the tile scripts
OUTFILE == <<"dc_mapillary_image_data.csv">>

Paths ==
    {INPUT_CSV, OUTFILE} \cup
    UNION {{p, TmpPath(p), BkpPath(p), TmpPath(BkpPath(p))} : p \in {INTERMEDIATE_CSV, OUTPUT_CSV}}

NoFile == [exists |-> FALSE, closed |-> FALSE, header |-> <<>>, rows |-> <<>>]

FullHeader == <<"url", "prediction", "confidence">>

\* ------------------------------------------------------------------------
\* Cells, CSV text and the conversions of to_csv / read_csv
\* ------------------------------------------------------------------------

\* In-memory prediction cells are Python strings, or the float NaN which is
\* written "NaN" here.  In-memory confidence cells are tagged:
\*   [t |-> "str", n |-> k]    the string f"{k/1000:.3f}"
\*   [t |-> "float", n |-> k]  the float k/1000
\*   [t |-> "empty", n |-> 0]  the string ''
\*   [t |-> "nan", n |-> 0]    the float NaN
\* CSV text of a confidence is its digit sequence: <<0,9,8,0>> is "0.980",
\* <<0,9,8>> is "0.98", <<1,0>> is "1.0", <<>> is the empty field.

NaN == "NaN"
EmptyStr == [t |-> "empty", n |-> 0]
NanCell == [t |-> "nan", n |-> 0]

\* f"{pred_conf:.3f}"
Format3f(n) == <<n \div 1000, (n \div 100) % 10, (n \div 10) % 10, n % 10>>

\* repr of a float with at most three decimals: shortest digits, at least one
FloatRepr(n) ==
    IF n % 1000 = 0 THEN <<n \div 1000, 0>>
    ELSE IF n % 100 = 0 THEN <<n \div 1000, (n \div 100) % 10>>
    ELSE IF n % 10 = 0 THEN <<n \div 1000, (n \div 100) % 10, (n \div 10) % 10>>
    ELSE Format3f(n)

Digit(txt, k) == IF k <= Len(txt) THEN txt[k] ELSE 0

\* float(text) in thousandths
ParseFloat(txt) == Digit(txt, 1) * 1000 + Digit(txt, 2) * 100 + Digit(txt, 3) * 10 + Digit(txt, 4)

\* to_csv of one cell
PredText(c) == IF c = NaN THEN "" ELSE c

ConfText(c) ==
    CASE c.t = "str" -> Format3f(c.n)
      [] c.t = "float" -> FloatRepr(c.n)
      [] OTHER -> <<>>

\* read_csv of one field
PredCell(txt) == IF txt = "" THEN NaN ELSE txt

ConfCell(txt) == IF txt = <<>> THEN NanCell ELSE [t |-> "float", n |-> ParseFloat(txt)]

RowText(r) == [url |-> r.url, prediction |-> PredText(r.prediction), confidence |-> ConfText(r.confidence)]

MaxLabel(S) == CHOOSE m \in S : \A k \in S : k <= m

RECURSIVE FrameRows(_)
\* rows of df.to_csv(index=False): one line per row, in index order
FrameRows(d) ==
    IF DOMAIN d = {} THEN <<>>
    ELSE LET m == MaxLabel(DOMAIN d)
         IN Append(FrameRows([k \in (DOMAIN d) \ {m} |-> d[k]]), RowText(d[m]))

\* pd.read_csv(path): RangeIndex 0..n-1; a missing column is added with ''
\* only for the input file (lines 66-68)
ReadCsv(f) ==
    [k \in 0 .. Len(f.rows) - 1 |->
        LET r == f.rows[k + 1]
        IN IF Len(f.header) = 3
           THEN [url |-> r.url, prediction |-> PredCell(r.prediction), confidence |-> ConfCell(r.confidence)]
           ELSE [url |-> r.url, prediction |-> "", confidence |-> EmptyStr]]

\* ------------------------------------------------------------------------
\* The external classifier: a fixed function of the image (of the row's url)
\* ------------------------------------------------------------------------

ConfTable == <<980, 1000, 575>>

Top1(url) == url % 2

Top1Conf(url) == ConfTable[(url % 3) + 1]

\* ------------------------------------------------------------------------
\* fetch_image (lines 88-100)
\* ------------------------------------------------------------------------

\* what one attempt can meet: a decodable 200 response, a 5xx response, a 4xx
\* response, a transport failure, a 200 response whose payload is no image
Outcomes == {"ok", "server", "client", "network", "decode"}

\* the exception the try body raises on an outcome: sess.get raises on a
\* transport failure, raise_for_status on 4xx/5xx, Image.open on a bad payload
Raised(outcome) ==
    CASE outcome = "network" -> "ConnectionError"
      [] outcome = "server" -> "HTTPError"
      [] outcome = "client" -> "HTTPError"
      [] outcome = "decode" -> "UnidentifiedImageError"
      [] OTHER -> "none"

\* a narrower handler: except requests.RequestException
ExceptRequestException(exc) == exc \in {"ConnectionError", "HTTPError"}

\* except Exception (line 97): every exception class above derives from it
ExceptException(exc) == exc \in {"ConnectionError", "HTTPError", "UnidentifiedImageError"}

RECURSIVE Pow(_, _)
Pow(b, e) == IF e = 0 THEN 1 ELSE b * Pow(b, e - 1)

\* a delay that shrinks with the attempt: BACKOFF_BASE ** -attempt
BackoffShrinking(attempt) == Pow(BACKOFF_DEN, attempt) * Pow(BACKOFF_NUM, MAX_RETRIES - attempt)

\* time.sleep(BACKOFF_BASE ** attempt), in units of BACKOFF_DEN ** -MAX_RETRIES s
Backoff(attempt) == Pow(BACKOFF_NUM, attempt) * Pow(BACKOFF_DEN, MAX_RETRIES - attempt)

\* a loop body that re-raises a 4xx response instead of retrying it
FetchStepRaiseClient(attempt, outcome) ==
    IF outcome = "ok" THEN [act |-> "return_img", sleep |-> 0]
    ELSE IF outcome = "client" \/ ~ExceptException(Raised(outcome)) THEN [act |-> "raise", sleep |-> 0]
    ELSE IF attempt = MAX_RETRIES THEN [act |-> "return_none", sleep |-> 0]
    ELSE [act |-> "retry", sleep |-> Backoff(attempt)]

\* a loop that gives up one attempt too early
FetchStepGiveUpEarly(attempt, outcome) ==
    IF outcome = "ok" THEN [act |-> "return_img", sleep |-> 0]
    ELSE IF ~ExceptException(Raised(outcome)) THEN [act |-> "raise", sleep |-> 0]
    ELSE IF attempt >= MAX_RETRIES - 1 THEN [act |-> "return_none", sleep |-> 0]
    ELSE [act |-> "retry", sleep |-> Backoff(attempt)]

\* one iteration of the for loop (lines 92-100)
FetchStep(attempt, outcome) ==
    IF outcome = "ok" THEN [act |-> "return_img", sleep |-> 0]
    ELSE IF ~ExceptException(Raised(outcome)) THEN [act |-> "raise", sleep |-> 0]
    ELSE IF attempt = MAX_RETRIES THEN [act |-> "return_none", sleep |-> 0]
    ELSE [act |-> "retry", sleep |-> Backoff(attempt)]

\* the outcomes the attempts of one call would meet, attempt by attempt
Scripts == [1 .. MAX_RETRIES -> Outcomes]

RECURSIVE FetchLoop(_, _)
FetchLoop(script, attempt) ==
    LET st == FetchStep(attempt, script[attempt])
    IN IF st.act = "retry" THEN FetchLoop(script, attempt + 1)
       ELSE [kind |-> IF st.act = "return_img" THEN "img"
                      ELSE IF st.act = "return_none" THEN "none" ELSE "raised",
             attempts |-> attempt]

\* the whole call on a script: what the future holds ("img" for (idx, img),
\* "none" for (idx, None), "raised" for an exception) and the attempts made
FetchImage(script) == FetchLoop(script, 1)

\* every attempt of the script meets a 4xx response
AllClient(script) == \A a \in 1 .. MAX_RETRIES : script[a] = "client"

\* the first two attempts meet a 5xx response, the third succeeds
Flaky(script) == script[1] = "server" /\ script[2] = "server" /\ script[3] = "ok"

\* the scripts a row of a given kind can meet: "img" rows are fetched within
\* MAX_RETRIES attempts, "client" rows answer 4xx every time, "none" rows fail
\* every attempt in some other way, "first" rows succeed at once, "flaky"
\* rows after two 5xx responses, "any" rows are unconstrained
ScriptsOf(kind) ==
    CASE kind = "img" -> {s \in Scripts : \E a \in 1 .. MAX_RETRIES : s[a] = "ok"}
      [] kind = "first" -> {s \in Scripts : s[1] = "ok"}
      [] kind = "flaky" -> {s \in Scripts : Flaky(s)}
      [] kind = "client" -> {s \in Scripts : AllClient(s)}
      [] kind = "none" -> {s \in Scripts : ~AllClient(s) /\ \A a \in 1 .. MAX_RETRIES : s[a] # "ok"}
      [] OTHER -> Scripts

\* what the futures of rows of a given kind can hold
FutureValues(kind) == {FetchImage(s).kind : s \in ScriptsOf(kind)}

ValuesAny == FutureValues("any")
ValuesImg == FutureValues("img")
ValuesClient == FutureValues("client")
ValuesNone == FutureValues("none")
ValuesFirst == FutureValues("first")
ValuesFlaky == FutureValues("flaky")

ValuesOf(kind) ==
    CASE kind = "img" -> ValuesImg
      [] kind = "client" -> ValuesClient
      [] kind = "none" -> ValuesNone
      [] kind = "first" -> ValuesFirst
      [] kind = "flaky" -> ValuesFlaky
      [] OTHER -> ValuesAny

\* ------------------------------------------------------------------------
\* State
\* ------------------------------------------------------------------------

VARIABLES
    files,                 \* the file system: path -> file
    env,                   \* os.getenv: NUM_WORKERS, BATCH_SIZE, SAVE_EVERY
    records,               \* the tile scripts: the list of records main holds
    world,                 \* row -> "img" | "client" | "none" | "any": what its url serves
    pc,                    \* position of the main thread
    df,                    \* the state table: index label -> row
    total_rows,            \* len(df) at startup (line 70)
    todo,                  \* df_to_process[URL_COL]: index label -> url, the submitted futures
    fstate,                \* future state: "queued" | "running" | "done"
    fres,                  \* what a done future holds
    yielded,               \* futures whose result the loop body has consumed
    batch,                 \* list of fetched rows waiting for predict_batch
    processed_since_save,
    shutdown_flag,
    sv,                    \* the rotate_and_save in progress
    exc,                   \* an exception is propagating out of the try block
    exc_info,              \* the exception that propagates or has ended the process
    calls,                 \* history: the predict_batch calls of this run
    saves,                 \* history: the save_intermediate calls this run completed
    classified,            \* history: times a label was written to a row, all runs
    ft                     \* one fetch_image call run attempt by attempt

vars == <<files, env, records, world, pc, df, total_rows, todo, fstate, fres, yielded, batch,
          processed_since_save, shutdown_flag, sv, exc, exc_info, calls, saves, classified, ft>>

NUM_WORKERS == env.NUM_WORKERS
BATCH_SIZE == env.BATCH_SIZE
SAVE_EVERY == env.SAVE_EVERY

\* the index labels of an input of n rows (RangeIndex)
RowsOf(n) == 0 .. n - 1

\* the index labels of the input chunk of this behaviour
Rows == DOMAIN world

NoException == [type |-> "none", during |-> "none"]

NoSave == [path |-> <<>>, stage |-> "none", ret |-> "none", lock |-> FALSE, prev |-> NoFile]

IdleFetch == [status |-> "idle", attempt |-> 0, trace |-> <<>>, sleeps |-> <<>>]

\* an input chunk of n rows with a url column and no prediction column
InputFileOf(n) ==
    [exists |-> TRUE, closed |-> TRUE, header |-> <<URL_COL>>,
     rows |-> [k \in 1 .. n |-> [url |-> k, prediction |-> "", confidence |-> <<>>]]]

InputFile == InputFileOf(NumRows)

\* the volatile state of a process that has just started
Fresh ==
    /\ pc = "load"
    /\ df = <<>>
    /\ total_rows = 0
    /\ todo = <<>>
    /\ fstate = [i \in Rows |-> "none"]
    /\ fres = [i \in Rows |-> "pending"]
    /\ yielded = {}
    /\ batch = <<>>
    /\ processed_since_save = 0
    /\ shutdown_flag = FALSE
    /\ sv = NoSave
    /\ exc = FALSE
    /\ exc_info = NoException
    /\ records = <<>>
    /\ calls = <<>>
    /\ saves = <<>>

Init ==
    /\ files = [p \in Paths |-> IF p = INPUT_CSV THEN InputFile ELSE NoFile]
    /\ env = SmallEnv
    /\ world = [i \in RowsOf(NumRows) |-> "any"]
    /\ classified = [i \in Rows |-> 0]
    /\ ft = IdleFetch
    /\ Fresh

\* ------------------------------------------------------------------------
\* Load / resume (lines 61-73) and submission (lines 130-132)
\* ------------------------------------------------------------------------

HasLabel(p) == p \in {"yes", "no"}

\* the resume filter without the isna test
ToProcessNoIsna(d) == {i \in DOMAIN d : d[i].prediction = "" \/ d[i].prediction = "ERROR"}

\* the resume filter without the 'ERROR' test
ToProcessNoError(d) == {i \in DOMAIN d : d[i].prediction = NaN \/ d[i].prediction = ""}

\* no resume filter: every row is processed again
ToProcessAll(d) == DOMAIN d

\* the index of df_to_process (line 72)
ToProcess(d) ==
    {i \in DOMAIN d : d[i].prediction = NaN \/ d[i].prediction = "" \/ d[i].prediction = "ERROR"}

Load ==
    /\ pc = "load"
    /\ LET src == IF files[INTERMEDIATE_CSV].exists THEN INTERMEDIATE_CSV ELSE INPUT_CSV
           d == ReadCsv(files[src])
       IN /\ df' = d
          /\ total_rows' = Cardinality(DOMAIN d)
          /\ todo' = [i \in ToProcess(d) |-> d[i].url]
          /\ fstate' = [i \in Rows |-> IF i \in ToProcess(d) THEN "queued" ELSE "none"]
    /\ pc' = "loop"
    /\ calls' = <<>>
    /\ UNCHANGED <<files, env, records, world, fres, yielded, batch, processed_since_save,
                   shutdown_flag, sv, exc, exc_info, saves, classified, ft>>

\* ------------------------------------------------------------------------
\* The signal handler (lines 51-55)
\* ------------------------------------------------------------------------

Running == pc \notin {"done", "raised", "crashed"}

\* a handler that ends the process at once when the flag is already set
HandleSignalForce ==
    /\ Running
    /\ shutdown_flag' = TRUE
    /\ pc' = IF shutdown_flag THEN "crashed" ELSE pc
    /\ UNCHANGED <<files, env, records, world, df, total_rows, todo, fstate, fres, yielded, batch,
                   processed_since_save, sv, exc, exc_info, calls, saves, classified, ft>>

HandleSignal ==
    /\ Running
    /\ shutdown_flag' = TRUE
    /\ UNCHANGED <<files, env, records, world, pc, df, total_rows, todo, fstate, fres, yielded, batch,
                   processed_since_save, sv, exc, exc_info, calls, saves, classified, ft>>

\* ------------------------------------------------------------------------
\* The thread pool (ThreadPoolExecutor, lines 130-132)
\* ------------------------------------------------------------------------

\* a pool that starts and runs nothing once the with block is being left
PoolAliveUntilExit ==
    pc \in {"loop", "to_csv_open", "to_csv_write", "os_replace"} /\ sv.ret \in {"none", "reset", "break"}

\* the workers run from the submission until shutdown(wait=True) has returned
\* at the end of the with block
PoolAlive == pc \in {"loop", "to_csv_open", "to_csv_write", "os_replace", "with_exit"} /\ sv.ret \in {"none", "reset", "break"}

\* a free worker takes the oldest queued future
WorkerStart(i) ==
    /\ PoolAlive
    /\ fstate[i] = "queued"
    /\ \A j \in Rows : fstate[j] = "queued" => i <= j
    /\ Cardinality({j \in Rows : fstate[j] = "running"}) < NUM_WORKERS
    /\ fstate' = [fstate EXCEPT ![i] = "running"]
    /\ UNCHANGED <<files, env, records, world, pc, df, total_rows, todo, fres, yielded, batch,
                   processed_since_save, shutdown_flag, sv, exc, exc_info, calls, saves, classified, ft>>

\* fetch_image returns (or raises) in its worker
WorkerFinish(i) ==
    /\ PoolAlive
    /\ fstate[i] = "running"
    /\ \E r \in ValuesOf(world[i]) : fres' = [fres EXCEPT ![i] = r]
    /\ fstate' = [fstate EXCEPT ![i] = "done"]
    /\ UNCHANGED <<files, env, records, world, pc, df, total_rows, todo, yielded, batch,
                   processed_since_save, shutdown_flag, sv, exc, exc_info, calls, saves, classified, ft>>

\* ------------------------------------------------------------------------
\* Writes to the state table and predict_batch (lines 103-113)
\* ------------------------------------------------------------------------

\* the row df.at creates when the label is not in the index (all other cells NaN)
NewRow == [url |-> 0, prediction |-> NaN, confidence |-> NanCell]

\* df.at[idx, 'prediction'] = v
SetPrediction(d, idx, v) ==
    IF idx \in DOMAIN d THEN [d EXCEPT ![idx].prediction = v]
    ELSE [k \in (DOMAIN d) \cup {idx} |-> IF k = idx THEN [NewRow EXCEPT !.prediction = v] ELSE d[k]]

\* df.at[idx, 'confidence'] = v
SetConfidence(d, idx, v) ==
    IF idx \in DOMAIN d THEN [d EXCEPT ![idx].confidence = v]
    ELSE [k \in (DOMAIN d) \cup {idx} |-> IF k = idx THEN [NewRow EXCEPT !.confidence = v] ELSE d[k]]

\* a handler that drops the row whose fetch failed
MarkErrorDrop(d, idx) == [k \in (DOMAIN d) \ {idx} |-> d[k]]

\* lines 140-143: keep the row, mark it ERROR
MarkError(d, idx) == SetPrediction(d, idx, "ERROR")

\* a classifier wrapper that pairs the results with the indices in reverse
PredictBatchMisaligned(b) ==
    [k \in 1 .. Len(b) |->
        [idx |-> b[Len(b) + 1 - k].idx,
         label |-> IF Top1(b[k].img) = 1 THEN "yes" ELSE "no",
         conf |-> [t |-> "str", n |-> Top1Conf(b[k].img)]]]

\* predict_batch(batch_data): one (index, label, f"{conf:.3f}") per item, in order
PredictBatch(b) ==
    [k \in 1 .. Len(b) |->
        [idx |-> b[k].idx,
         label |-> IF Top1(b[k].img) = 1 THEN "yes" ELSE "no",
         conf |-> [t |-> "str", n |-> Top1Conf(b[k].img)]]]

RECURSIVE ApplyPreds(_, _)
\* for idx_p, label, conf in preds: df.at[...] = label; df.at[...] = conf
ApplyPreds(d, preds) ==
    IF preds = <<>> THEN d
    ELSE LET p == Head(preds)
         IN ApplyPreds(SetConfidence(SetPrediction(d, p.idx, p.label), p.idx, p.conf), Tail(preds))

Indices(b) == {b[k].idx : k \in 1 .. Len(b)}

\* a flush test that is off by one
BatchFullLate(b) == Len(b) > BATCH_SIZE

\* len(batch) >= BATCH_SIZE (line 147)
BatchFull(b) == Len(b) >= BATCH_SIZE

\* a save test that is off by one
SaveDueLate(n) == n > SAVE_EVERY

\* processed_since_save >= SAVE_EVERY (line 159)
SaveDue(n) == n >= SAVE_EVERY

CountUp(c, S) == [i \in Rows |-> IF i \in S /\ c[i] < 2 THEN c[i] + 1 ELSE c[i]]

\* ------------------------------------------------------------------------
\* rotate_and_save / atomic_save_csv (lines 36-46), step by step
\* ------------------------------------------------------------------------

\* the path the atomic_save_csv in progress replaces
SaveTarget == IF sv.stage = "bkp" THEN BkpPath(sv.path) ELSE sv.path

\* an atomic_save_csv that writes the target in place
SaveTmpInPlace == SaveTarget

\* tmp = path + ".tmp" (line 37)
SaveTmp == TmpPath(SaveTarget)

\* save_intermediate(tag) begins: save_lock is taken and rotate_and_save(df,
\* path) is entered; ret stands for the tag and says where control goes when
\* the call returns ("reset" after save_intermediate(), "break" after
\* "(shutdown)", "output" after "(final)", "raise" after "(exception)")
BeginSave(path, ret) ==
    /\ sv' = [path |-> path, stage |-> "bkp", ret |-> ret, lock |-> TRUE, prev |-> files[path]]
    /\ pc' = "to_csv_open"

\* save_lock (line 117) is held exactly while control is inside the with block
\* of save_intermediate (lines 120-124)
save_lock == sv.lock

\* df.to_csv(tmp) opens tmp for writing: the file is created or truncated
ToCsvOpen ==
    /\ pc = "to_csv_open"
    /\ files' = [files EXCEPT ![SaveTmp] =
                    [exists |-> TRUE, closed |-> FALSE, header |-> FullHeader, rows |-> <<>>]]
    /\ pc' = "to_csv_write"
    /\ UNCHANGED <<env, records, world, df, total_rows, todo, fstate, fres, yielded, batch,
                   processed_since_save, shutdown_flag, sv, exc, exc_info, calls, saves, classified, ft>>

\* df.to_csv(tmp) writes the table and closes the file
ToCsvWrite ==
    /\ pc = "to_csv_write"
    /\ files' = [files EXCEPT ![SaveTmp].rows = FrameRows(df), ![SaveTmp].closed = TRUE]
    /\ pc' = "os_replace"
    /\ UNCHANGED <<env, records, world, df, total_rows, todo, fstate, fres, yielded, batch,
                   processed_since_save, shutdown_flag, sv, exc, exc_info, calls, saves, classified, ft>>

\* os.replace(tmp, path) (line 39), then the rest of rotate_and_save and the
\* statement that follows the save
OsReplace ==
    /\ pc = "os_replace"
    /\ LET moved == IF SaveTmp = SaveTarget THEN files
                    ELSE [files EXCEPT ![SaveTarget] = files[SaveTmp], ![SaveTmp] = NoFile]
       IN /\ files' = moved
          /\ IF sv.stage = "bkp"
             THEN /\ sv' = [sv EXCEPT !.stage = "latest"]
                  /\ pc' = "to_csv_open"
                  /\ UNCHANGED processed_since_save
             ELSE CASE sv.ret = "reset" ->
                         \* lines 160-161
                         /\ processed_since_save' = 0
                         /\ pc' = "loop"
                         /\ sv' = NoSave
                    [] sv.ret = "break" ->
                         \* lines 136-137
                         /\ pc' = "with_exit"
                         /\ sv' = NoSave
                         /\ UNCHANGED processed_since_save
                    [] sv.ret = "output" ->
                         \* line 173 done: save_lock is released; line 176 calls
                         \* rotate_and_save(df, OUTPUT_CSV) outside save_intermediate
                         /\ sv' = [path |-> OUTPUT_CSV, stage |-> "bkp", ret |-> "verify",
                                   lock |-> FALSE, prev |-> moved[OUTPUT_CSV]]
                         /\ pc' = "to_csv_open"
                         /\ UNCHANGED processed_since_save
                    [] sv.ret = "verify" ->
                         /\ pc' = "verify"
                         /\ sv' = NoSave
                         /\ UNCHANGED processed_since_save
                    [] OTHER ->
                         \* line 192: the emergency save is done, re-raise
                         /\ pc' = "raised"
                         /\ sv' = NoSave
                         /\ UNCHANGED processed_since_save
    /\ saves' = IF sv.stage = "latest" /\ sv.lock THEN Append(saves, sv.ret) ELSE saves
    /\ UNCHANGED <<env, records, world, df, total_rows, todo, fstate, fres, yielded, batch,
                   shutdown_flag, exc, exc_info, calls, classified, ft>>

\* the process is killed while a file write is in progress
Crash ==
    /\ pc \in {"to_csv_open", "to_csv_write", "os_replace"}
    /\ pc' = "crashed"
    /\ UNCHANGED <<files, env, records, world, df, total_rows, todo, fstate, fres, yielded, batch,
                   processed_since_save, shutdown_flag, sv, exc, exc_info, calls, saves, classified, ft>>

\* ------------------------------------------------------------------------
\* The main loop (lines 134-161)
\* ------------------------------------------------------------------------

\* the image a fetch of row i returns: the content behind the row's url
ImageOf(i) == todo[i]

\* an iterator that hands a finished future over again
AsCompletedAgain == {i \in DOMAIN todo : fstate[i] = "done"}

\* as_completed(futures) (line 134): the finished futures not yet handed over
AsCompleted == {i \in (DOMAIN todo) \ yielded : fstate[i] = "done"}

\* a shutdown check that breaks without writing the checkpoint
LoopShutdownNoSave(i) ==
    /\ pc = "loop"
    /\ i \in AsCompleted
    /\ shutdown_flag
    /\ pc' = "with_exit"
    /\ UNCHANGED <<files, env, records, world, df, total_rows, todo, fstate, fres, yielded, batch,
                   processed_since_save, shutdown_flag, sv, exc, exc_info, calls, saves, classified, ft>>

\* as_completed hands over a finished future while the flag is set (135-137)
LoopShutdown(i) ==
    /\ pc = "loop"
    /\ i \in AsCompleted
    /\ shutdown_flag
    /\ BeginSave(INTERMEDIATE_CSV, "break")
    /\ UNCHANGED <<files, env, records, world, df, total_rows, todo, fstate, fres, yielded, batch,
                   processed_since_save, shutdown_flag, exc, exc_info, calls, saves, classified, ft>>

\* as_completed hands over a finished future and the body runs (139-161);
\* mayFail says whether predict_batch can raise
LoopResult(i, mayFail) ==
    /\ pc = "loop"
    /\ i \in AsCompleted
    /\ ~shutdown_flag
    /\ yielded' = yielded \cup {i}
    /\ CASE fres[i] = "raised" ->
              \* future.result() re-raises: control leaves the with block
              /\ exc' = TRUE
              /\ exc_info' = [type |-> "Exception", during |-> "future.result"]
              /\ pc' = "with_exit"
              /\ UNCHANGED <<df, batch, processed_since_save, sv, calls, classified>>
         [] fres[i] = "none" ->
              /\ df' = MarkError(df, i)
              /\ pc' = "loop"
              /\ UNCHANGED <<batch, processed_since_save, sv, exc, exc_info, calls, classified>>
         [] OTHER ->
              LET b == Append(batch, [idx |-> i, img |-> ImageOf(i)])
              IN IF BatchFull(b)
                 THEN \E ok \in {TRUE} \cup {~mayFail} :
                         LET preds == IF ok THEN PredictBatch(b) ELSE <<>>
                             n == processed_since_save + Len(preds)
                         IN /\ df' = ApplyPreds(df, preds)
                            /\ classified' = CountUp(classified, Indices(preds))
                            /\ calls' = Append(calls, [items |-> Indices(b), phase |-> "loop", ok |-> ok])
                            /\ batch' = <<>>
                            /\ processed_since_save' = n
                            /\ exc' = exc
                            /\ exc_info' = exc_info
                            /\ IF SaveDue(n)
                               THEN BeginSave(INTERMEDIATE_CSV, "reset")
                               ELSE pc' = "loop" /\ sv' = sv
                 ELSE /\ batch' = b
                      /\ pc' = "loop"
                      /\ UNCHANGED <<df, processed_since_save, sv, exc, exc_info, calls, classified>>
    /\ UNCHANGED <<files, env, records, world, total_rows, todo, fstate, fres, shutdown_flag, saves, ft>>

\* as_completed is exhausted: the for loop ends
LoopEnd ==
    /\ pc = "loop"
    /\ yielded = DOMAIN todo
    /\ pc' = "with_exit"
    /\ UNCHANGED <<files, env, records, world, df, total_rows, todo, fstate, fres, yielded, batch,
                   processed_since_save, shutdown_flag, sv, exc, exc_info, calls, saves, classified, ft>>

\* leaving the with block: executor.shutdown(wait=True) returns once every
\* submitted future has run; a propagating exception then reaches line 185
WithExit ==
    /\ pc = "with_exit"
    /\ \A i \in DOMAIN todo : fstate[i] = "done"
    /\ IF exc
       THEN BeginSave(INTERMEDIATE_CSV, "raise")
       ELSE pc' = "final_batch" /\ sv' = sv
    /\ UNCHANGED <<files, env, records, world, df, total_rows, todo, fstate, fres, yielded, batch,
                   processed_since_save, shutdown_flag, exc, exc_info, calls, saves, classified, ft>>

\* a final flush that does not look at the shutdown flag
FinalFlushDueNoFlag == batch # <<>>

\* not shutdown_flag.is_set() and batch (line 164)
FinalFlushDue == ~shutdown_flag /\ batch # <<>>

\* lines 164-173: the final batch, then save_intermediate("(final)") begins
FinalBatch(mayFail) ==
    /\ pc = "final_batch"
    /\ IF FinalFlushDue
       THEN \E ok \in {TRUE} \cup {~mayFail} :
               LET preds == IF ok THEN PredictBatch(batch) ELSE <<>>
               IN /\ df' = ApplyPreds(df, preds)
                  /\ classified' = CountUp(classified, Indices(preds))
                  /\ calls' = Append(calls, [items |-> Indices(batch), phase |-> "final", ok |-> ok])
       ELSE UNCHANGED <<df, classified, calls>>
    /\ BeginSave(INTERMEDIATE_CSV, "output")
    /\ UNCHANGED <<files, env, records, world, total_rows, todo, fstate, fres, yielded, batch,
                   processed_since_save, shutdown_flag, exc, exc_info, saves, ft>>

\* lines 180-183: the row-count assertion; a failure reaches line 185
Verify ==
    /\ pc = "verify"
    /\ IF Cardinality(DOMAIN df) = total_rows
       THEN pc' = "done" /\ sv' = sv /\ exc' = exc /\ exc_info' = exc_info
       ELSE /\ exc' = TRUE
            /\ exc_info' = [type |-> "AssertionError", during |-> "verify"]
            /\ BeginSave(INTERMEDIATE_CSV, "raise")
    /\ UNCHANGED <<files, env, records, world, df, total_rows, todo, fstate, fres, yielded, batch,
                   processed_since_save, shutdown_flag, calls, saves, classified, ft>>

\* the script is run again on the files the last run left (the history of the
\* run that ended is kept until the new run has loaded)
Restart ==
    /\ pc \in {"done", "raised"}
    /\ world' = world
    /\ env' = env
    /\ records' = records
    /\ pc' = "load"
    /\ df' = <<>>
    /\ total_rows' = 0
    /\ todo' = <<>>
    /\ fstate' = [i \in Rows |-> "none"]
    /\ fres' = [i \in Rows |-> "pending"]
    /\ yielded' = {}
    /\ batch' = <<>>
    /\ processed_since_save' = 0
    /\ shutdown_flag' = FALSE
    /\ sv' = NoSave
    /\ exc' = FALSE
    /\ exc_info' = NoException
    /\ saves' = <<>>
    /\ UNCHANGED <<files, calls, classified, ft>>

\* ------------------------------------------------------------------------
\* A write that fails, and the handler of lines 185-192
\* ------------------------------------------------------------------------

\* a handler that lets the failure of the emergency save propagate
AfterEmergencyFailureHides(original, ee) == ee

\* lines 188-192: the failure ee of the emergency save is caught and printed,
\* then the bare raise re-raises the exception being handled
AfterEmergencyFailure(original, ee) == original

\* df.to_csv or os.replace raises OSError (disk full, no permission): the file
\* system stays as the failed call found it, and the exception leaves
\* rotate_and_save and the with block of save_lock
WriteFails ==
    /\ pc \in {"to_csv_open", "to_csv_write", "os_replace"}
    /\ LET e == [type |-> "OSError", during |-> sv.ret]
       IN CASE sv.ret \in {"reset", "break"} ->
                  \* raised inside the with block of the executor (line 130)
                  /\ exc' = TRUE
                  /\ exc_info' = e
                  /\ pc' = "with_exit"
                  /\ sv' = NoSave
            [] sv.ret \in {"output", "verify"} ->
                  \* lines 173, 176: control goes to the handler of line 185
                  /\ exc' = TRUE
                  /\ exc_info' = e
                  /\ BeginSave(INTERMEDIATE_CSV, "raise")
            [] OTHER ->
                  \* the emergency save itself fails
                  /\ exc' = exc
                  /\ exc_info' = AfterEmergencyFailure(exc_info, e)
                  /\ pc' = "raised"
                  /\ sv' = NoSave
    /\ UNCHANGED <<files, env, records, world, df, total_rows, todo, fstate, fres, yielded, batch,
                   processed_since_save, shutdown_flag, calls, saves, classified, ft>>

\* ------------------------------------------------------------------------
\* 2_detect_tents_v2.py: the same pipeline with one fetch attempt per row, no
\* shutdown flag, a resume filter without isna and files written in place
\* ------------------------------------------------------------------------

\* fetch_image of v2 (lines 43-51): one attempt, any exception gives (idx, None)
FetchImageV2(outcome) == IF outcome = "ok" THEN "img" ELSE "none"

ValuesV2 == {FetchImageV2(o) : o \in Outcomes}

\* the index of df_to_process (v2 line 40)
ToProcessV2(d) == {i \in DOMAIN d : d[i].prediction = "" \/ d[i].prediction = "ERROR"}

\* v2 lines 31-40 and the submission of line 75
LoadV2 ==
    /\ pc = "load"
    /\ LET src == IF files[INTERMEDIATE_CSV].exists THEN INTERMEDIATE_CSV ELSE INPUT_CSV
           d == ReadCsv(files[src])
       IN /\ df' = d
          /\ todo' = [i \in ToProcessV2(d) |-> d[i].url]
          /\ fstate' = [i \in Rows |-> IF i \in ToProcessV2(d) THEN "queued" ELSE "none"]
    /\ pc' = "loop"
    /\ calls' = <<>>
    /\ UNCHANGED <<files, env, records, world, total_rows, fres, yielded, batch, processed_since_save,
                   shutdown_flag, sv, exc, exc_info, saves, classified, ft>>

WorkerFinishV2(i) ==
    /\ PoolAlive
    /\ fstate[i] = "running"
    /\ \E r \in ValuesV2 : fres' = [fres EXCEPT ![i] = r]
    /\ fstate' = [fstate EXCEPT ![i] = "done"]
    /\ UNCHANGED <<files, env, records, world, pc, df, total_rows, todo, yielded, batch,
                   processed_since_save, shutdown_flag, sv, exc, exc_info, calls, saves, classified, ft>>

\* df.to_csv(path, index=False) begins (v2 lines 67, 114): no temporary file,
\* no backup, no lock
BeginSaveV2(path, ret) ==
    /\ sv' = [path |-> path, stage |-> "latest", ret |-> ret, lock |-> FALSE, prev |-> files[path]]
    /\ pc' = "to_csv_open"

\* the loop body of v2 (lines 78-99)
LoopResultV2(i) ==
    /\ pc = "loop"
    /\ i \in (DOMAIN todo) \ yielded
    /\ fstate[i] = "done"
    /\ yielded' = yielded \cup {i}
    /\ IF fres[i] = "none"
       THEN /\ df' = MarkError(df, i)
            /\ pc' = "loop"
            /\ UNCHANGED <<batch, processed_since_save, sv, calls, classified>>
       ELSE LET b == Append(batch, [idx |-> i, img |-> ImageOf(i)])
            IN \E ok \in BOOLEAN :
                  LET preds == IF BatchFull(b) /\ ok THEN PredictBatch(b) ELSE <<>>
                      n == processed_since_save + Len(preds)
                  IN /\ BatchFull(b) \/ ok
                     /\ df' = ApplyPreds(df, preds)
                     /\ classified' = CountUp(classified, Indices(preds))
                     /\ calls' = IF BatchFull(b)
                                 THEN Append(calls, [items |-> Indices(b), phase |-> "loop", ok |-> ok])
                                 ELSE calls
                     /\ batch' = IF BatchFull(b) THEN <<>> ELSE b
                     /\ IF n >= SAVE_EVERY
                        THEN BeginSaveV2(INTERMEDIATE_CSV, "reset") /\ processed_since_save' = n
                        ELSE pc' = "loop" /\ sv' = sv /\ processed_since_save' = n
    /\ UNCHANGED <<files, env, records, world, total_rows, todo, fstate, fres, shutdown_flag, exc, exc_info, saves, ft>>

\* v2 lines 102-111: the final batch, then save_intermediate() begins
FinalBatchV2 ==
    /\ pc = "final_batch"
    /\ IF batch # <<>>
       THEN \E ok \in BOOLEAN :
               LET preds == IF ok THEN PredictBatch(batch) ELSE <<>>
               IN /\ df' = ApplyPreds(df, preds)
                  /\ classified' = CountUp(classified, Indices(preds))
                  /\ calls' = Append(calls, [items |-> Indices(batch), phase |-> "final", ok |-> ok])
       ELSE UNCHANGED <<df, classified, calls>>
    /\ BeginSaveV2(INTERMEDIATE_CSV, "output")
    /\ UNCHANGED <<files, env, records, world, total_rows, todo, fstate, fres, yielded, batch,
                   processed_since_save, shutdown_flag, exc, exc_info, saves, ft>>

\* df.to_csv(path) opens path itself for writing: the file is truncated
ToCsvOpenV2 ==
    /\ pc = "to_csv_open"
    /\ files' = [files EXCEPT ![sv.path] =
                    [exists |-> TRUE, closed |-> FALSE, header |-> FullHeader, rows |-> <<>>]]
    /\ pc' = "to_csv_write"
    /\ UNCHANGED <<env, records, world, df, total_rows, todo, fstate, fres, yielded, batch,
                   processed_since_save, shutdown_flag, sv, exc, exc_info, calls, saves, classified, ft>>

\* df.to_csv(path) writes the table and closes the file, then the statement
\* that follows the write
ToCsvWriteV2 ==
    /\ pc = "to_csv_write"
    /\ files' = [files EXCEPT ![sv.path].rows = FrameRows(df), ![sv.path].closed = TRUE]
    /\ CASE sv.ret = "reset" ->
              \* v2 line 99
              /\ processed_since_save' = 0
              /\ pc' = "loop"
              /\ sv' = NoSave
         [] sv.ret = "output" ->
              \* v2 line 111 done, line 114 begins
              /\ sv' = [path |-> OUTPUT_CSV, stage |-> "latest", ret |-> "exit",
                        lock |-> FALSE, prev |-> files[OUTPUT_CSV]]
              /\ pc' = "to_csv_open"
              /\ UNCHANGED processed_since_save
         [] OTHER ->
              \* v2 line 115: the script ends
              /\ pc' = "done"
              /\ sv' = NoSave
              /\ UNCHANGED processed_since_save
    /\ saves' = IF sv.path = INTERMEDIATE_CSV THEN Append(saves, sv.ret) ELSE saves
    /\ UNCHANGED <<env, records, world, df, total_rows, todo, fstate, fres, yielded, batch,
                   shutdown_flag, exc, exc_info, calls, classified, ft>>

\* ------------------------------------------------------------------------
\* fetch_image run on its own, attempt by attempt
\* ------------------------------------------------------------------------

FetchAttempt ==
    /\ ft.status = "running"
    /\ \E o \in Outcomes :
          LET st == FetchStep(ft.attempt, o)
          IN ft' = [status |-> IF st.act = "retry" THEN "running" ELSE st.act,
                    attempt |-> IF st.act = "retry" THEN ft.attempt + 1 ELSE ft.attempt,
                    trace |-> Append(ft.trace, o),
                    sleeps |-> IF st.act = "retry" THEN Append(ft.sleeps, st.sleep) ELSE ft.sleeps]
    /\ UNCHANGED <<files, env, records, world, pc, df, total_rows, todo, fstate, fres, yielded, batch,
                   processed_since_save, shutdown_flag, sv, exc, exc_info, calls, saves, classified>>

InitFetch ==
    /\ files = [p \in Paths |-> IF p = INPUT_CSV THEN InputFile ELSE NoFile]
    /\ env = SmallEnv
    /\ world = [i \in RowsOf(NumRows) |-> "any"]
    /\ classified = [i \in Rows |-> 0]
    /\ ft = [status |-> "running", attempt |-> 1, trace |-> <<>>, sleeps |-> <<>>]
    /\ Fresh

\* ------------------------------------------------------------------------
\* Specifications
\* ------------------------------------------------------------------------

Next ==
    \/ Load
    \/ HandleSignal
    \/ \E i \in Rows : WorkerStart(i)
    \/ \E i \in Rows : WorkerFinish(i)
    \/ \E i \in Rows : LoopShutdown(i)
    \/ \E i \in Rows : LoopResult(i, TRUE)
    \/ LoopEnd
    \/ WithExit
    \/ FinalBatch(TRUE)
    \/ ToCsvOpen
    \/ ToCsvWrite
    \/ OsReplace
    \/ Verify
    \/ Crash
    \/ Restart

Spec == Init /\ [][Next]_vars

\* the same program when fetch and classifier outcomes are a fixed function of
\* the row: predict_batch does not raise and the servers do not change
NextFixed ==
    \/ Load
    \/ HandleSignal
    \/ \E i \in Rows : WorkerStart(i)
    \/ \E i \in Rows : WorkerFinish(i)
    \/ \E i \in Rows : LoopShutdown(i)
    \/ \E i \in Rows : LoopResult(i, FALSE)
    \/ LoopEnd
    \/ WithExit
    \/ FinalBatch(FALSE)
    \/ ToCsvOpen
    \/ ToCsvWrite
    \/ OsReplace
    \/ Verify
    \/ Crash
    \/ Restart

InitFixed ==
    /\ files = [p \in Paths |-> IF p = INPUT_CSV THEN InputFile ELSE NoFile]
    /\ env = SmallEnv
    /\ world \in [RowsOf(NumRows) -> {"img", "client", "none"}]
    /\ classified = [i \in Rows |-> 0]
    /\ ft = IdleFetch
    /\ Fresh

SpecFixed == InitFixed /\ [][NextFixed]_vars

\* ------------------------------------------------------------------------
\* The tile scripts: 1_extract_street_img_urls_missing.py and
\* 1_extract_street_img_urls_missing2.py
\* ------------------------------------------------------------------------

Tiles == 0 .. NumTiles - 1

\* what the tile endpoint answers: the vector tile, a 5xx or 4xx status, no
\* answer (connection error, timeout), or bytes that do not decode
TileResponses == {"ok", "5xx", "4xx", "net", "bad"}

\* what the graph endpoint answers for one image: a json with or without
\* thumb_2048_url, a 5xx or 4xx status, or no answer
ImageResponses == {"url", "nourl", "5xx", "4xx", "net"}

SeqsUpTo(S, n) == UNION {[1 .. k -> S] : k \in 0 .. n}

\* a tile of the world: the answer for the tile and the answers for the
\* features of the tile that pass the filters of process_tile, in order
TileScripts == [geo : TileResponses, imgs : SeqsUpTo(ImageResponses, MaxFeatures)]

\* the outcome of a call: a returned value or a raised exception
Returned(v) == [raised |-> "none", code |-> 0, value |-> v]
Raises(type, code) == [raised |-> type, code |-> code, value |-> <<>>]

\* requests.get + raise_for_status + vt_bytes_to_geojson (the same in both scripts)
fetch_tile_geojson(resp) ==
    CASE resp = "ok" -> Returned("features")
      [] resp = "5xx" -> Raises("HTTPError", 500)
      [] resp = "4xx" -> Raises("HTTPError", 404)
      [] resp = "net" -> Raises("RequestException", 0)
      [] OTHER -> Raises("Exception", 0)

\* 1_extract_street_img_urls_missing.py, lines 33-51 (retries=2): a 5xx on the
\* first attempt reaches time.sleep on line 46, and the module does not
\* import time: the call raises NameError and no second attempt is made
fetch_image_url(resp) ==
    CASE resp = "url" -> Returned("url")
      [] resp = "nourl" -> Returned("None")
      [] resp = "5xx" -> Raises("NameError", 0)
      [] resp = "4xx" -> Raises("HTTPError", 404)
      [] OTHER -> Raises("RequestException", 0)

\* lines 61-78: the loop over the features; a record is appended whatever
\* the url is, and an exception of fetch_image_url leaves process_tile
RECURSIVE TileFeatures(_, _, _, _)
TileFeatures(t, imgs, k, recs) ==
    IF k > Len(imgs)
    THEN Returned(recs)
    ELSE LET r == fetch_image_url(imgs[k])
         IN IF r.raised # "none"
            THEN Raises(r.raised, r.code)
            ELSE TileFeatures(t, imgs, k + 1, Append(recs, [tile |-> t, id |-> k, url |-> r.value]))

\* 1_extract_street_img_urls_missing.py, lines 53-78
process_tile(t, s) ==
    LET gj == fetch_tile_geojson(s.geo)
    IN IF gj.raised # "none" THEN Raises(gj.raised, gj.code) ELSE TileFeatures(t, s.imgs, 1, <<>>)

\* 1_extract_street_img_urls_missing2.py, lines 44-52: one attempt
fetch_image_url2(resp) ==
    CASE resp = "url" -> Returned("url")
      [] resp = "nourl" -> Returned("None")
      [] resp = "5xx" -> Raises("HTTPError", 500)
      [] resp = "4xx" -> Raises("HTTPError", 404)
      [] OTHER -> Raises("RequestException", 0)

\* lines 58-73: a feature without url is left out; an exception of
\* fetch_image_url is caught on line 72 and the records made so far are returned
RECURSIVE TileFeatures2(_, _, _, _)
TileFeatures2(t, imgs, k, recs) ==
    IF k > Len(imgs)
    THEN recs
    ELSE LET r == fetch_image_url2(imgs[k])
         IN IF r.raised # "none"
            THEN recs
            ELSE TileFeatures2(t, imgs, k + 1,
                               IF r.value = "url"
                               THEN Append(recs, [tile |-> t, id |-> k, url |-> r.value])
                               ELSE recs)

\* 1_extract_street_img_urls_missing2.py, lines 54-74: never raises
process_tile2(t, s) ==
    LET gj == fetch_tile_geojson(s.geo)
    IN IF gj.raised # "none" THEN Returned(<<>>) ELSE Returned(TileFeatures2(t, s.imgs, 1, <<>>))

\* what the future of tile t can hold
TileValues(t) == {process_tile(t, s) : s \in TileScripts}
TileValues2(t) == {process_tile2(t, s) : s \in TileScripts}

\* min(32, (os.cpu_count() or 1) * 5) on a machine with one cpu
max_workers == 5

OutHeader == <<"id", "captured_at_ms", "lon", "lat", "url">>

\* the state at the start of a tile script: the output file of an earlier
\* run of the extraction exists (header, rows abstracted away) or does not
InitTiles ==
    /\ \E there \in BOOLEAN :
          files = [p \in Paths |->
                     IF p = OUTFILE /\ there
                     THEN [exists |-> TRUE, closed |-> TRUE, header |-> OutHeader, rows |-> <<>>]
                     ELSE NoFile]
    /\ env = SmallEnv
    /\ world = [t \in Tiles |-> "any"]
    /\ classified = [t \in Tiles |-> 0]
    /\ ft = IdleFetch
    /\ pc = "prepare"
    /\ df = <<>>
    /\ total_rows = 0
    /\ todo = <<>>
    /\ fstate = [t \in Tiles |-> "none"]
    /\ fres = [t \in Tiles |-> "pending"]
    /\ yielded = {}
    /\ batch = <<>>
    /\ processed_since_save = 0
    /\ shutdown_flag = FALSE
    /\ sv = NoSave
    /\ exc = FALSE
    /\ exc_info = NoException
    /\ records = <<>>
    /\ calls = <<>>
    /\ saves = <<>>

\* 1_extract_street_img_urls_missing.py, lines 84-87: write the header when
\* the output file does not exist
Prepare ==
    /\ pc = "prepare"
    /\ files' = IF files[OUTFILE].exists
                THEN files
                ELSE [files EXCEPT ![OUTFILE] =
                        [exists |-> TRUE, closed |-> TRUE, header |-> OutHeader, rows |-> <<>>]]
    /\ pc' = "submit"
    /\ UNCHANGED <<env, records, world, df, total_rows, todo, fstate, fres, yielded, batch,
                   processed_since_save, shutdown_flag, sv, exc, exc_info, calls, saves,
                   classified, ft>>

\* 1_extract_street_img_urls_missing.py, lines 94-96: every tile is submitted,
\* then the for statement evaluates as_completed(futures); line 9 imports only
\* ThreadPoolExecutor from concurrent.futures, so the name is not defined and
\* NameError leaves the with block
SubmitTiles ==
    /\ pc = "submit"
    /\ fstate' = [t \in Tiles |-> "queued"]
    /\ exc' = TRUE
    /\ exc_info' = [type |-> "NameError", during |-> "as_completed"]
    /\ pc' = "with_exit"
    /\ UNCHANGED <<files, env, records, world, df, total_rows, todo, fres, yielded, batch,
                   processed_since_save, shutdown_flag, sv, calls, saves, classified, ft>>

\* a worker thread of the pool takes the oldest queued tile
TileStart(t) ==
    /\ pc \in {"loop", "with_exit"}
    /\ fstate[t] = "queued"
    /\ \A u \in Tiles : u < t => fstate[u] # "queued"
    /\ Cardinality({u \in Tiles : fstate[u] = "running"}) < max_workers
    /\ fstate' = [fstate EXCEPT ![t] = "running"]
    /\ UNCHANGED <<files, env, records, world, pc, df, total_rows, todo, fres, yielded, batch,
                   processed_since_save, shutdown_flag, sv, exc, exc_info, calls, saves,
                   classified, ft>>

\* process_tile(tile) of 1_extract_street_img_urls_missing.py ends
TileFinish(t) ==
    /\ fstate[t] = "running"
    /\ \E v \in TileValues(t) : fres' = [fres EXCEPT ![t] = v]
    /\ fstate' = [fstate EXCEPT ![t] = "done"]
    /\ UNCHANGED <<files, env, records, world, pc, df, total_rows, todo, yielded, batch,
                   processed_since_save, shutdown_flag, sv, exc, exc_info, calls, saves,
                   classified, ft>>

\* the with block of the executor ends: shutdown(wait=True) returns when
\* every submitted tile has run; then the exception propagates and ends the
\* process, or the script ends
TilesWithExit ==
    /\ pc = "with_exit"
    /\ \A t \in Tiles : fstate[t] = "done"
    /\ pc' = IF exc THEN "raised" ELSE "done"
    /\ UNCHANGED <<files, env, records, world, df, total_rows, todo, fstate, fres, yielded,
                   batch, processed_since_save, shutdown_flag, sv, exc, exc_info, calls, saves,
                   classified, ft>>

NextTiles ==
    \/ Prepare
    \/ SubmitTiles
    \/ \E t \in Tiles : TileStart(t)
    \/ \E t \in Tiles : TileFinish(t)
    \/ TilesWithExit

\* 1_extract_street_img_urls_missing.py
SpecTiles == InitTiles /\ [][NextTiles]_vars

\* the state at the start of 1_extract_street_img_urls_missing2.py, which
\* writes no header
InitTiles2 ==
    /\ InitTiles!1
    /\ env = SmallEnv
    /\ world = [t \in Tiles |-> "any"]
    /\ classified = [t \in Tiles |-> 0]
    /\ ft = IdleFetch
    /\ pc = "submit"
    /\ df = <<>>
    /\ total_rows = 0
    /\ todo = <<>>
    /\ fstate = [t \in Tiles |-> "none"]
    /\ fres = [t \in Tiles |-> "pending"]
    /\ yielded = {}
    /\ batch = <<>>
    /\ processed_since_save = 0
    /\ shutdown_flag = FALSE
    /\ sv = NoSave
    /\ exc = FALSE
    /\ exc_info = NoException
    /\ records = <<>>
    /\ calls = <<>>
    /\ saves = <<>>

\* 1_extract_street_img_urls_missing2.py, lines 121-129: records = [], every
\* tile is submitted and the loop over as_completed starts
SubmitTiles2 ==
    /\ pc = "submit"
    /\ records' = <<>>
    /\ fstate' = [t \in Tiles |-> "queued"]
    /\ pc' = "loop"
    /\ UNCHANGED <<files, env, world, df, total_rows, todo, fres, yielded, batch,
                   processed_since_save, shutdown_flag, sv, exc, exc_info, calls, saves,
                   classified, ft>>

\* process_tile(tile) of 1_extract_street_img_urls_missing2.py ends
TileFinish2(t) ==
    /\ fstate[t] = "running"
    /\ \E v \in TileValues2(t) : fres' = [fres EXCEPT ![t] = v]
    /\ fstate' = [fstate EXCEPT ![t] = "done"]
    /\ UNCHANGED <<files, env, records, world, pc, df, total_rows, todo, yielded, batch,
                   processed_since_save, shutdown_flag, sv, exc, exc_info, calls, saves,
                   classified, ft>>

\* open(OUTFILE, "a") + csv.writer(f).writerows(rows): the file is created
\* when it does not exist, the rows go after the ones it holds
AppendRows(f, rows) ==
    [exists |-> TRUE, closed |-> TRUE, header |-> f.header, rows |-> f.rows \o rows]

\* the list is left as it is after the write
RecordsKept(recs) == recs

\* line 140: records.clear()
RecordsClear(recs) == <<>>

\* lines 129-141: one iteration of the loop over as_completed, for a tile
\* that has completed and has not been handed over yet; process_tile never
\* raises, so future.result() returns
TileResult2(t) ==
    /\ pc = "loop"
    /\ fstate[t] = "done"
    /\ t \notin yielded
    /\ yielded' = yielded \cup {t}
    /\ LET extended == records \o fres[t].value
       IN IF extended # <<>>
          THEN /\ files' = [files EXCEPT ![OUTFILE] = AppendRows(@, extended)]
               /\ records' = RecordsClear(extended)
          ELSE /\ files' = files
               /\ records' = extended
    /\ UNCHANGED <<env, world, pc, df, total_rows, todo, fstate, fres, batch,
                   processed_since_save, shutdown_flag, sv, exc, exc_info, calls, saves,
                   classified, ft>>

\* as_completed is exhausted: the loop ends
TilesLoopEnd ==
    /\ pc = "loop"
    /\ yielded = Tiles
    /\ pc' = "with_exit"
    /\ UNCHANGED <<files, env, records, world, df, total_rows, todo, fstate, fres, yielded,
                   batch, processed_since_save, shutdown_flag, sv, exc, exc_info, calls, saves,
                   classified, ft>>

NextTiles2 ==
    \/ SubmitTiles2
    \/ \E t \in Tiles : TileStart(t)
    \/ \E t \in Tiles : TileFinish2(t)
    \/ \E t \in Tiles : TileResult2(t)
    \/ TilesLoopEnd
    \/ TilesWithExit

\* 1_extract_street_img_urls_missing2.py
SpecTiles2 == InitTiles2 /\ [][NextTiles2]_vars

\* one run of the script from the input file, when a write to the file
\* system may fail
NextIO ==
    \/ Load
    \/ HandleSignal
    \/ \E i \in Rows : WorkerStart(i)
    \/ \E i \in Rows : WorkerFinish(i)
    \/ \E i \in Rows : LoopShutdown(i)
    \/ \E i \in Rows : LoopResult(i, TRUE)
    \/ LoopEnd
    \/ WithExit
    \/ FinalBatch(TRUE)
    \/ ToCsvOpen
    \/ ToCsvWrite
    \/ OsReplace
    \/ Verify
    \/ WriteFails

SpecIO == Init /\ [][NextIO]_vars

\* a step of the main thread
MainStep ==
    \/ Load
    \/ \E i \in Rows : LoopShutdown(i)
    \/ \E i \in Rows : LoopResult(i, TRUE)
    \/ LoopEnd
    \/ WithExit
    \/ FinalBatch(TRUE)
    \/ ToCsvOpen
    \/ ToCsvWrite
    \/ OsReplace
    \/ Verify
    \/ WriteFails

\* a step of the worker thread that runs fetch_image for row i
WorkerStep(i) == WorkerStart(i) \/ WorkerFinish(i)

\* one run under a fair scheduler: the main thread takes its next step when
\* it has one, a worker starts a queued call when it is free, and every
\* fetch_image call returns (each attempt returns or times out, each sleep
\* ends); a signal may arrive at any time or never
SpecLive ==
    /\ Init
    /\ [][NextIO]_vars
    /\ WF_vars(MainStep)
    /\ \A i \in RowsOf(NumRows) : WF_vars(WorkerStep(i))

\* one run of 2_detect_tents_v3.py over a chunk of ten rows with the default
\* NUM_WORKERS=10 and BATCH_SIZE=4, SAVE_EVERY=6 in the environment: the
\* seventh row (index 6, url 7) is fetched at the third attempt after two 5xx
\* responses, the others at the first; predict_batch does not fail and no
\* signal arrives
ScenarioEnv == [NUM_WORKERS |-> 10, BATCH_SIZE |-> 4, SAVE_EVERY |-> 6]

ScenarioWorld == [i \in RowsOf(10) |-> IF i = 6 THEN "flaky" ELSE "first"]

InitScenario ==
    /\ files = [p \in Paths |-> IF p = INPUT_CSV THEN InputFileOf(10) ELSE NoFile]
    /\ env = ScenarioEnv
    /\ world = ScenarioWorld
    /\ classified = [i \in Rows |-> 0]
    /\ ft = IdleFetch
    /\ Fresh

NextScenario ==
    \/ Load
    \/ \E i \in Rows : WorkerStart(i)
    \/ \E i \in Rows : WorkerFinish(i)
    \/ \E i \in Rows : LoopResult(i, FALSE)
    \/ LoopEnd
    \/ WithExit
    \/ FinalBatch(FALSE)
    \/ ToCsvOpen
    \/ ToCsvWrite
    \/ OsReplace
    \/ Verify

SpecScenario == InitScenario /\ [][NextScenario]_vars

\* 2_detect_tents_v2.py
NextV2 ==
    \/ LoadV2
    \/ \E i \in Rows : WorkerStart(i)
    \/ \E i \in Rows : WorkerFinishV2(i)
    \/ \E i \in Rows : LoopResultV2(i)
    \/ LoopEnd
    \/ WithExit
    \/ FinalBatchV2
    \/ ToCsvOpenV2
    \/ ToCsvWriteV2
    \/ Crash
    \/ Restart

SpecV2 == Init /\ [][NextV2]_vars

NextFetch == FetchAttempt

SpecFetch == InitFetch /\ [][NextFetch]_vars

\* ------------------------------------------------------------------------
\* Properties
\* ------------------------------------------------------------------------

Checkpoint == files[INTERMEDIATE_CSV]

Loaded == pc # "load"

\* the rows whose fetch returned (idx, None) and whose result the loop consumed
FailedRows == {i \in yielded : fres[i] = "none"}

\* a CSV row and a row of the table carry the same label and the same
\* confidence value
SameLabel(txt, row) ==
    /\ txt.prediction = row.prediction
    /\ txt.confidence # <<>>
    /\ row.confidence.t \in {"str", "float"}
    /\ ParseFloat(txt.confidence) = row.confidence.n

\* C1: in every state of a run the table in memory, the intermediate file and
\* the output file have exactly total_rows rows, and a row whose fetch failed is
\* still in the table, marked ERROR, also in the files written at the end.
C1_RowCountPreserved ==
    Loaded =>
        /\ Cardinality(DOMAIN df) = total_rows
        /\ total_rows = Len(files[INPUT_CSV].rows)
        /\ \A p \in {INTERMEDIATE_CSV, OUTPUT_CSV} :
              files[p].exists => Len(files[p].rows) = total_rows
        /\ \A i \in FailedRows : i \in DOMAIN df /\ df[i].prediction = "ERROR"
        /\ pc = "done" =>
              \A i \in FailedRows : \A p \in {INTERMEDIATE_CSV, OUTPUT_CSV} :
                 files[p].rows[i + 1].prediction = "ERROR"

\* a finished run that saw a failed fetch, a failed batch and a shutdown signal
C1_Witness ==
    /\ pc = "done"
    /\ FailedRows # {}
    /\ \E k \in 1 .. Len(calls) : ~calls[k].ok
    /\ shutdown_flag
    /\ files[OUTPUT_CSV].exists

\* C2: the load step of a run that finds an intermediate checkpoint submits
\* exactly the rows whose prediction field in that file is not yes/no.
C2_ResumeSubmitsUnlabelled ==
    [][(pc = "load" /\ pc' = "loop" /\ Checkpoint.exists) =>
          /\ DOMAIN todo' = {i \in 0 .. Len(Checkpoint.rows) - 1 :
                                ~HasLabel(Checkpoint.rows[i + 1].prediction)}
          /\ \A i \in Rows : fstate'[i] = IF i \in DOMAIN todo' THEN "queued" ELSE "none"]_vars

\* a resumed run, just loaded, whose checkpoint holds labelled rows and a row
\* that was never given an outcome
C2_Witness ==
    /\ pc = "loop"
    /\ yielded = {}
    /\ Checkpoint.exists
    /\ \E i \in Rows : HasLabel(Checkpoint.rows[i + 1].prediction) /\ i \notin DOMAIN todo
    /\ \E i \in Rows : Checkpoint.rows[i + 1].prediction = "" /\ fstate[i] = "queued"

\* every labelled row of every file on disk agrees with the table in memory
LabelsOnDiskAgree ==
    \A p \in Paths \ {INPUT_CSV} : \A k \in 1 .. Len(files[p].rows) :
        HasLabel(files[p].rows[k].prediction) =>
            (k - 1) \in DOMAIN df /\ SameLabel(files[p].rows[k], df[k - 1])

\* C3: within a run no row leaves the table, a labelled row never changes, a row
\* changes only from unlabelled or ERROR to ERROR or to a label, a file that is
\* written shows every labelled row with its label and confidence, and every
\* label found on disk is the one in memory.
C3_LabelsAreFinal ==
    [][(pc # "load" /\ pc' # "load") =>
          /\ \A i \in DOMAIN df :
                /\ i \in DOMAIN df'
                /\ HasLabel(df[i].prediction) => df'[i] = df[i]
                /\ df'[i] # df[i] =>
                      /\ ~HasLabel(df[i].prediction)
                      /\ df'[i].url = df[i].url
                      /\ \/ df'[i] = [df[i] EXCEPT !.prediction = "ERROR"]
                         \/ HasLabel(df'[i].prediction)
          /\ (pc = "to_csv_write" /\ pc' = "os_replace") =>
                \A i \in DOMAIN df : HasLabel(df[i].prediction) =>
                    SameLabel(files'[SaveTmp].rows[i + 1], df[i])
          /\ LabelsOnDiskAgree
          /\ LabelsOnDiskAgree']_vars

\* a resumed run has given a label to a row its old output file shows as ERROR,
\* next to a row that was loaded with its label, and has written the checkpoint
C3_Witness ==
    /\ sv.path = OUTPUT_CSV
    /\ \E i \in DOMAIN df :
          /\ files[OUTPUT_CSV].exists
          /\ files[OUTPUT_CSV].rows[i + 1].prediction = "ERROR"
          /\ HasLabel(df[i].prediction)
          /\ df[i].confidence.t = "str"
          /\ SameLabel(Checkpoint.rows[i + 1], df[i])
    /\ \E j \in DOMAIN df : HasLabel(df[j].prediction) /\ df[j].confidence.t = "float"

\* the label and confidence value the classifier gives the image of row i
LabelOf(i) == IF Top1(files[INPUT_CSV].rows[i + 1].url) = 1 THEN "yes" ELSE "no"

ConfOf(i) == Top1Conf(files[INPUT_CSV].rows[i + 1].url)

\* the outcome one uninterrupted run gives row i when the outcomes are fixed
IsFinal(i, row) ==
    IF world[i] = "img"
    THEN /\ row.prediction = LabelOf(i)
         /\ row.confidence.t \in {"str", "float"}
         /\ row.confidence.n = ConfOf(i)
    ELSE /\ row.prediction = "ERROR"
         /\ row.confidence.t \in {"empty", "nan"}

\* C4: with outcomes fixed per row, a run that ends with the shutdown flag
\* unset, whether it is the first run or follows any number of interrupted
\* runs, leaves every row with the outcome of one uninterrupted run, in memory
\* and in the output file, and no row is given a label twice over all runs.
C4_ResumeEqualsUninterrupted ==
    /\ \A i \in Rows : classified[i] <= 1
    /\ (pc = "done" /\ ~shutdown_flag) =>
          \A i \in Rows :
             /\ i \in DOMAIN df
             /\ IsFinal(i, df[i])
             /\ IsFinal(i, ReadCsv(files[OUTPUT_CSV])[i])
             /\ classified[i] = IF world[i] = "img" THEN 1 ELSE 0

\* a completed run that resumed an interrupted one: a label loaded from the
\* checkpoint next to a label given in this run
C4_Witness ==
    /\ pc = "done"
    /\ ~shutdown_flag
    /\ \E i \in DOMAIN df : HasLabel(df[i].prediction) /\ df[i].confidence.t = "float"
    /\ \E i \in DOMAIN df : HasLabel(df[i].prediction) /\ df[i].confidence.t = "str"

Saving == pc \in {"to_csv_open", "to_csv_write", "os_replace"}

\* C5: the canonical path never holds an open or partly written file, and while
\* a save of it is in progress or has been cut short by a crash it is absent,
\* or is the complete file it was before the save, or is the complete new table.
C5_CanonicalNeverPartial ==
    /\ \A p \in {INTERMEDIATE_CSV, OUTPUT_CSV} : files[p].exists => files[p].closed
    /\ (Saving \/ pc = "crashed") =>
          LET f == files[sv.path]
          IN \/ ~f.exists
             \/ /\ f.closed
                /\ \/ f = sv.prev
                   \/ f.header = FullHeader /\ f.rows = FrameRows(df)

\* a crash while the temporary file of the checkpoint is open and unwritten,
\* the canonical path holding the complete previous checkpoint
C5_Witness ==
    /\ pc = "crashed"
    /\ sv.path = INTERMEDIATE_CSV
    /\ sv.stage = "latest"
    /\ files[SaveTmp].exists
    /\ ~files[SaveTmp].closed
    /\ Checkpoint.exists
    /\ Checkpoint.rows # FrameRows(df)

\* C6: a run ends (normally or by an exception) with no shutdown; predict_batch
\* did not fail; exactly one submitted row answers 4xx on every attempt and
\* every other submitted row is fetched: that row is ERROR and the others hold
\* a label.
C6_FaultIsolation ==
    (pc \in {"done", "raised"} /\ ~shutdown_flag) =>
        \A c \in DOMAIN todo :
            (world[c] = "client" /\ \A j \in (DOMAIN todo) \ {c} : world[j] = "img") =>
                /\ df[c].prediction = "ERROR"
                /\ \A j \in (DOMAIN todo) \ {c} : HasLabel(df[j].prediction)

\* a finished first run over all rows with one 4xx row
C6_Witness ==
    /\ pc = "done"
    /\ ~shutdown_flag
    /\ DOMAIN todo = Rows
    /\ \E c \in Rows :
          /\ world[c] = "client"
          /\ df[c].prediction = "ERROR"
          /\ \A j \in Rows \ {c} : world[j] = "img" /\ HasLabel(df[j].prediction)

CeilDiv(n, b) == (n + b - 1) \div b

FetchedRows == {i \in DOMAIN todo : fres[i] = "img"}

\* C7: when a run ends with the shutdown flag unset, its predict_batch calls
\* number ceil(N/B) for the N fetched rows; all but the last take B items from
\* inside the loop, the last takes the rest, from the final flush when B does
\* not divide N; the calls are disjoint and cover the fetched rows.
C7_BatchFlush ==
    (pc = "done" /\ ~shutdown_flag) =>
        LET n == Cardinality(FetchedRows)
            k == CeilDiv(n, BATCH_SIZE)
        IN /\ Len(calls) = k
           /\ \A c \in 1 .. k - 1 :
                 Cardinality(calls[c].items) = BATCH_SIZE /\ calls[c].phase = "loop"
           /\ k > 0 =>
                 /\ Cardinality(calls[k].items) = n - BATCH_SIZE * (k - 1)
                 /\ calls[k].phase = IF n % BATCH_SIZE = 0 THEN "loop" ELSE "final"
           /\ \A c, e \in 1 .. k : c # e => calls[c].items \cap calls[e].items = {}
           /\ UNION {calls[c].items : c \in 1 .. k} = FetchedRows

\* a finished run with a full batch flushed in the loop and a partial last one
C7_Witness ==
    /\ pc = "done"
    /\ ~shutdown_flag
    /\ Len(calls) = 2
    /\ calls[1].phase = "loop"
    /\ calls[2].phase = "final"
    /\ Cardinality(calls[2].items) < BATCH_SIZE

AllServer(trace) == \A k \in 1 .. Len(trace) : trace[k] = "server"

\* C8: a call whose attempts all meet a 5xx response makes at most MAX_RETRIES
\* attempts (so at most MAX_RETRIES retries), ends with the failure value after
\* exactly MAX_RETRIES, sleeps once between two attempts, and each sleep is at
\* least as long as the one before.
C8_BackoffBound ==
    AllServer(ft.trace) =>
        /\ Len(ft.trace) <= MAX_RETRIES
        /\ Len(ft.sleeps) <= MAX_RETRIES
        /\ ft.status = "running" => Len(ft.sleeps) = Len(ft.trace)
        /\ ft.status # "running" =>
              /\ ft.status = "return_none"
              /\ Len(ft.trace) = MAX_RETRIES
              /\ Len(ft.sleeps) = MAX_RETRIES - 1
        /\ \A k \in 1 .. Len(ft.sleeps) - 1 : ft.sleeps[k] <= ft.sleeps[k + 1]
        /\ \A k \in 1 .. Len(ft.sleeps) : ft.sleeps[k] = Backoff(k)

\* a call that gave up after MAX_RETRIES 5xx responses and two sleeps
C8_Witness ==
    /\ ft.status = "return_none"
    /\ Len(ft.trace) = MAX_RETRIES
    /\ AllServer(ft.trace)
    /\ Len(ft.sleeps) = 2
    /\ ft.sleeps[1] < ft.sleeps[2]

\* C9: an attempt that meets a 4xx response is the last attempt of the call.
C9_ClientErrorTerminal ==
    \A k \in 1 .. Len(ft.trace) :
        ft.trace[k] = "client" => k = Len(ft.trace) /\ ft.status = "return_none"

\* on every script fetch_image returns: (idx, img), or (idx, None) from the
\* MAX_RETRIES-th attempt (a fact about the function, evaluated where a run starts)
FetchAlwaysReturns ==
    \A s \in Scripts :
        LET r == FetchImage(s)
        IN /\ r.kind \in {"img", "none"}
           /\ r.kind = "none" => r.attempts = MAX_RETRIES

\* C10: whatever the attempts meet, fetch_image returns (idx, img) or, from the
\* MAX_RETRIES-th attempt, the failure value; so a future never holds an
\* exception and none reaches the main loop, and a consumed failure value is
\* recorded as ERROR.
C10_FetchNeverRaises ==
    /\ pc = "load" => FetchAlwaysReturns
    /\ \A i \in Rows : fres[i] \in {"pending", "img", "none"}
    /\ ~exc
    /\ pc # "raised"
    /\ \A i \in yielded : fres[i] = "none" => i \in DOMAIN df /\ df[i].prediction = "ERROR"

\* the loop has consumed a failure value and an image
C10_Witness ==
    /\ \E i \in yielded : fres[i] = "none" /\ df[i].prediction = "ERROR" /\ df[i].confidence = EmptyStr
    /\ \E i \in yielded : fres[i] = "img"

\* the rows of the buffers predict_batch failed on in this run
FailedBatchRows == UNION {calls[k].items : k \in {j \in 1 .. Len(calls) : ~calls[j].ok}}

\* the prediction cell of a row no run has given an outcome
Blank(p) == p \in {"", NaN}

\* C11: every row of a buffer predict_batch failed on (a full buffer or the
\* final partial one) holds an error outcome in the table: its prediction is
\* not the blank of a row that was never attempted.
C11_FailedBufferMarked ==
    \A i \in FailedBatchRows : i \in DOMAIN df /\ ~Blank(df[i].prediction)

\* C12: a failed predict_batch call does not stop the run: the step in which
\* it fails raises nothing and, inside the loop, empties the buffer; the run that ends has written
\* the table to the checkpoint and to the output file, with a label for every
\* fetched row outside the failed buffers (unless a shutdown cut the run short);
\* and the load step of the next run submits every row of the failed buffers.
C12_BatchFailureNonFatal ==
    [][/\ (Len(calls') > Len(calls) /\ ~calls'[Len(calls')].ok) =>
             /\ calls'[Len(calls')].phase = "loop" => batch' = <<>>
             /\ ~exc' /\ pc' \notin {"raised", "crashed"}
       /\ (pc' = "done" /\ FailedBatchRows' # {}) =>
             /\ files'[INTERMEDIATE_CSV].rows = FrameRows(df')
             /\ files'[OUTPUT_CSV].rows = FrameRows(df')
             /\ ~shutdown_flag' =>
                   \A i \in FetchedRows' \ FailedBatchRows' : HasLabel(df'[i].prediction)
       /\ (pc = "load" /\ pc' = "loop") => FailedBatchRows \subseteq DOMAIN todo']_vars

\* the rows whose outcome in the table is not the one the checkpoint shows:
\* the outcomes recorded since the checkpoint was last written (or loaded)
Unsaved ==
    {i \in DOMAIN df :
        /\ ~Blank(df[i].prediction)
        /\ ~Checkpoint.exists \/ Checkpoint.rows[i + 1].prediction # df[i].prediction}

UnsavedLabels == {i \in Unsaved : HasLabel(df[i].prediction)}

\* C13 as stated: no outcome is recorded in the table while SAVE_EVERY or more
\* recorded outcomes are waiting for a checkpoint write.
C13_SaveEveryOutcomes ==
    [][(pc # "load" /\ df' # df) => Cardinality(Unsaved) < SAVE_EVERY]_vars

\* C13 amended: processed_since_save counts the labels written by the flushes
\* of the loop since the last periodic checkpoint (rows marked ERROR are not
\* counted); when a flush brings it to SAVE_EVERY or more, save_intermediate()
\* begins in the same step, no outcome is recorded before it has replaced the
\* checkpoint with the whole table, and the count then restarts from zero.
C13_SaveEveryLabels ==
    [][/\ pc = "loop" =>
             /\ processed_since_save < SAVE_EVERY
             /\ processed_since_save = Cardinality(UnsavedLabels)
       /\ (pc = "loop" /\ processed_since_save' >= SAVE_EVERY) =>
             /\ pc' = "to_csv_open"
             /\ sv'.path = INTERMEDIATE_CSV /\ sv'.ret = "reset"
       /\ (pc # "load" /\ processed_since_save >= SAVE_EVERY) =>
             /\ df' = df
             /\ Saving /\ sv.ret = "reset"
             /\ pc' = "loop" =>
                   /\ processed_since_save' = 0
                   /\ files'[INTERMEDIATE_CSV].rows = FrameRows(df)
                   /\ saves' = Append(saves, "reset")]_vars

\* back in the loop after a periodic checkpoint that holds the labels of a flush
C13_Witness ==
    /\ pc = "loop"
    /\ saves = <<"reset">>
    /\ processed_since_save = 0
    /\ Len(calls) = 1 /\ calls[1].ok
    /\ Checkpoint.rows = FrameRows(df)
    /\ \E i \in DOMAIN df : HasLabel(df[i].prediction) /\ df[i].confidence.t = "str"
    /\ yielded # DOMAIN todo

\* the sizes of the buffers predict_batch was called with, in call order
CallSizes == [k \in 1 .. Len(calls) |-> Cardinality(calls[k].items)]

IsPrefix(a, b) == Len(a) <= Len(b) /\ \A k \in 1 .. Len(a) : a[k] = b[k]

\* C14: in the run over ten rows with BATCH_SIZE=4 and SAVE_EVERY=6 where the
\* seventh row meets two 5xx responses and then succeeds and every other fetch
\* succeeds, in every completion order: the seventh row's fetch returns its
\* image from the third attempt; predict_batch is called with buffers of 4, 4
\* and 2 rows and no others; the checkpoint is written once in the loop (after
\* the second call) and once at the end; the seventh row ends with a label in
\* the table, the checkpoint and the output file.
C14_Scenario ==
    /\ pc = "load" =>
          \A s \in ScriptsOf("flaky") : FetchImage(s) = [kind |-> "img", attempts |-> 3]
    /\ fres[6] \in {"pending", "img"}
    /\ IsPrefix(CallSizes, <<4, 4, 2>>)
    /\ \A k \in 1 .. Len(calls) : calls[k].ok /\ calls[k].phase = IF k = 3 THEN "final" ELSE "loop"
    /\ IsPrefix(saves, <<"reset", "output">>)
    /\ Len(saves) >= 1 => Len(calls) >= 2
    /\ Len(saves) = 2 => Len(calls) = 3
    /\ pc = "done" =>
          /\ CallSizes = <<4, 4, 2>>
          /\ saves = <<"reset", "output">>
          /\ HasLabel(df[6].prediction)
          /\ SameLabel(Checkpoint.rows[7], df[6])
          /\ SameLabel(files[OUTPUT_CSV].rows[7], df[6])

\* the run has ended; the seventh row was in the first buffer and the first
\* row in the last: the fetches completed out of submission order
C14_Witness ==
    /\ pc = "done"
    /\ world[6] = "flaky"
    /\ CallSizes = <<4, 4, 2>>
    /\ 6 \in calls[1].items
    /\ 0 \in calls[3].items
    /\ saves = <<"reset", "output">>

\* the intermediate path holds a complete file with the whole table
CheckpointCurrent ==
    /\ Checkpoint.exists
    /\ Checkpoint.closed
    /\ Checkpoint.header = FullHeader
    /\ Checkpoint.rows = FrameRows(df)

\* the main loop has been left by the break of line 137
LeftByBreak ==
    /\ shutdown_flag
    /\ pc \in {"with_exit", "final_batch"}
    /\ yielded # DOMAIN todo

\* C15: once the shutdown flag is set, the process does not end (normally or
\* by an exception) before the intermediate path holds the whole table, with
\* every outcome recorded so far; and when the loop is left by the break, the
\* "(shutdown)" checkpoint has already been written and holds the whole table.
C15_ShutdownCheckpoint ==
    /\ (shutdown_flag /\ pc \in {"done", "raised"}) => CheckpointCurrent /\ saves # <<>>
    /\ LeftByBreak => CheckpointCurrent /\ saves # <<>> /\ saves[Len(saves)] = "break"

\* the loop has been left by the break in a first run: the failed fetch the
\* loop recorded before the signal is in the checkpoint, written only by the
\* "(shutdown)" save
C15_Witness ==
    /\ LeftByBreak
    /\ saves = <<"break">>
    /\ \E i \in FailedRows : Checkpoint.rows[i + 1].prediction = "ERROR"
    /\ ~files[OUTPUT_CSV].exists

\* C16: once the loop has been left by the break, no queued fetch is started.
C16_NoFetchStartsAfterBreak ==
    [][LeftByBreak => \A i \in Rows : fstate[i] = "queued" => fstate'[i] = "queued"]_vars

\* C17: while the shutdown flag is set the main thread, once loaded, consumes no completed
\* fetch, records no outcome and calls predict_batch no more (the final flush
\* included); the step that sets the flag changes nothing else, so the outcome
\* being handled and a checkpoint write in progress are finished as usual; and
\* a fetch running in a worker while the flag is set still ends by itself, with
\* a value fetch_image can return.
C17_FlagReadBetweenItems ==
    [][/\ (shutdown_flag /\ pc # "load" /\ pc' # "load") =>
             UNCHANGED <<df, yielded, batch, calls, classified>>
       /\ (~shutdown_flag /\ shutdown_flag') =>
             UNCHANGED <<files, pc, df, todo, fstate, fres, yielded, batch, sv, exc, exc_info, calls, saves>>
       /\ \A i \in Rows :
             (shutdown_flag /\ fstate[i] = "running" /\ pc' # "load") =>
                /\ fstate'[i] \in {"running", "done"}
                /\ fstate'[i] = "done" => fres'[i] \in ValuesOf(world[i])]_vars

\* a run ended after a shutdown: rows still in the buffer were not flushed, a
\* fetch that completed was left unconsumed, and the checkpoint was written by
\* the shutdown check
C17_Witness ==
    /\ pc = "done"
    /\ shutdown_flag
    /\ batch # <<>>
    /\ \E i \in (DOMAIN todo) \ yielded : fstate[i] = "done" /\ fres[i] = "img"
    /\ saves = <<"break", "output">>
    /\ \A k \in 1 .. Len(batch) : Blank(df[batch[k].idx].prediction)

\* C18: a step of the signal handler taken while the shutdown flag is already
\* set leaves every variable as it was: the table, the files, the position of
\* the main thread and of the workers, hence everything that follows.
C18_SecondSignalNoOp ==
    [][(shutdown_flag /\ HandleSignal) => UNCHANGED vars]_vars

\* the flag is set, the loop has not seen it yet, a checkpoint write is under
\* way and the handler can run again
C18_Witness ==
    /\ shutdown_flag
    /\ pc = "os_replace"
    /\ sv.ret = "reset"
    /\ yielded # DOMAIN todo
    /\ ENABLED HandleSignal

\* C19: every step of a write of the table to a file (the temporary file being
\* opened, written, or moved onto its path) is taken while save_lock is held.
C19_WritesHoldLock ==
    Saving => save_lock

\* the rows of the buffers predict_batch was called with in this run
CalledRows == UNION {calls[k].items : k \in 1 .. Len(calls)}

\* the rows waiting in the buffer for a predict_batch call (the final flush
\* leaves its rows in the list)
Buffered ==
    IF \E k \in 1 .. Len(calls) : calls[k].phase = "final" THEN {} ELSE Indices(batch)

\* C20: in a run every pending row has one future and no other row has any; a
\* future is never queued again and a finished one keeps its value; a row the
\* loop has consumed is a failed row (marked ERROR in the step that consumed
\* it), or waits in the buffer once, or was in exactly one predict_batch call,
\* and never two of these; a row of the table changes only in the step that
\* consumes its failed fetch or in the predict_batch call that holds it.
C20_SubmittedOnce ==
    /\ [](pc # "load" =>
            /\ \A i \in Rows : fstate[i] # "none" <=> i \in DOMAIN todo
            /\ Len(batch) = Cardinality(Indices(batch))
            /\ \A k, e \in 1 .. Len(calls) : k # e => calls[k].items \cap calls[e].items = {}
            /\ FailedRows \cap Indices(batch) = {}
            /\ FailedRows \cap CalledRows = {}
            /\ Buffered \cap CalledRows = {}
            /\ FailedRows \cup Buffered \cup CalledRows = {i \in yielded : fres[i] # "raised"})
    /\ [][(pc # "load" /\ pc' # "load") =>
            \A i \in Rows :
               /\ fstate'[i] = "queued" => fstate[i] = "queued"
               /\ fstate[i] = "done" => fstate'[i] = "done" /\ fres'[i] = fres[i]
               /\ i \in yielded => i \in yielded'
               /\ (i \in DOMAIN df /\ df'[i] # df[i]) =>
                     \/ i \notin yielded /\ i \in yielded' /\ fres[i] = "none"
                     \/ /\ Len(calls') = Len(calls) + 1
                        /\ i \in calls'[Len(calls')].items
                        /\ i \notin CalledRows]_vars

\* a run has ended that consumed every future: a failed row, marked once and
\* not fetched again, next to classified rows
C20_Witness ==
    /\ pc = "done"
    /\ ~shutdown_flag
    /\ yielded = DOMAIN todo
    /\ FailedRows # {}
    /\ \E k \in 1 .. Len(calls) : calls[k].ok
    /\ \A i \in FailedRows : fstate[i] = "done" /\ df[i].prediction = "ERROR"

\* C21: an exception that aborts the main processing is always followed by
\* one emergency save_intermediate("(exception)"): the process ends by an
\* exception only from that save, when it has completed or has failed, and the
\* exception it ends with is the one that aborted the processing, never the
\* failure of the emergency save.
C21_EmergencySave ==
    [][/\ (~exc /\ exc') =>
             /\ exc_info = NoException /\ exc_info' # NoException
             /\ exc_info'.during # "raise"
             /\ pc' \in {"with_exit", "to_csv_open"}
             /\ pc' = "to_csv_open" => sv'.ret = "raise" /\ sv'.path = INTERMEDIATE_CSV
       /\ (exc /\ pc = "with_exit" /\ pc' # "with_exit") =>
             pc' = "to_csv_open" /\ sv'.ret = "raise" /\ sv'.path = INTERMEDIATE_CSV
       /\ (sv.ret = "raise" /\ sv'.ret # "raise") => pc' = "raised"
       /\ (pc # "raised" /\ pc' = "raised") =>
             /\ Saving /\ sv.ret = "raise" /\ sv.path = INTERMEDIATE_CSV /\ save_lock
             /\ exc /\ exc_info # NoException
             /\ exc_info' = exc_info
             /\ "raise" \notin {saves[k] : k \in 1 .. Len(saves)}]_vars

\* the final checkpoint write failed, the emergency write failed too, and the
\* process has ended with the exception of the final write
C21_Witness ==
    /\ pc = "raised"
    /\ exc_info = [type |-> "OSError", during |-> "output"]
    /\ "raise" \notin {saves[k] : k \in 1 .. Len(saves)}
    /\ ~CheckpointCurrent

\* C22: in 1_extract_street_img_urls_missing.py no error of a single tile
\* aborts the run: the run ends normally, and the records of every tile whose
\* process_tile returned are in the output file.
C22_TileErrorSkipped ==
    pc \in {"done", "raised"} =>
        /\ pc = "done"
        /\ \A t \in Tiles :
              fres[t].raised = "none" =>
                 \A k \in 1 .. Len(fres[t].value) :
                    \E j \in 1 .. Len(files[OUTFILE].rows) :
                       files[OUTFILE].rows[j] = fres[t].value[k]

\* the number of rows of the output file equal to rec
TimesWritten(rec) ==
    Cardinality({j \in 1 .. Len(files[OUTFILE].rows) : files[OUTFILE].rows[j] = rec})

\* the records the futures handed over so far have returned
HandedOver == UNION {{fres[t].value[k] : k \in 1 .. Len(fres[t].value)} : t \in yielded}

\* C25: in 1_extract_street_img_urls_missing2.py, for every completion
\* order, once the loop body has run for a tile every record process_tile
\* returned for it is in the output file exactly once, the file holds no
\* other row, and the shared records list is empty between iterations; at
\* the end of the run this holds for every tile.
C25_AppendedOnce ==
    /\ records = <<>>
    /\ \A rec \in HandedOver : TimesWritten(rec) = 1
    /\ Len(files[OUTFILE].rows) = Cardinality(HandedOver)
    /\ pc = "done" => yielded = Tiles /\ ~exc

\* the run has ended; tile 2 completed first and was written first, tile 0
\* returned two records and tile 1 none
C25_Witness ==
    /\ pc = "done"
    /\ Len(fres[0].value) = 2
    /\ Len(fres[1].value) = 0
    /\ Len(fres[2].value) = 1
    /\ files[OUTFILE].rows[1].tile = 2
    /\ Len(files[OUTFILE].rows) = 3

\* C23: with fetch outcome and classifier output fixed per row and no batch
\* failure, every predict_batch call gives each row of its buffer the label
\* and confidence of that row, whatever other rows share the buffer and
\* wherever the row stands in it, and changes no other row; so a run that
\* ends without shutdown leaves the same label on every row for every
\* completion order.
C23_OrderIndependent ==
    /\ [][Len(calls') > Len(calls) =>
             LET c == calls'[Len(calls')]
             IN /\ \A i \in c.items :
                      /\ df'[i].prediction = LabelOf(i)
                      /\ df'[i].confidence = [t |-> "str", n |-> ConfOf(i)]
                /\ \A i \in DOMAIN df \ c.items : df'[i] = df[i]]_vars
    /\ []((pc = "done" /\ ~shutdown_flag) =>
             \A i \in Rows :
                df[i].prediction = IF world[i] = "img" THEN LabelOf(i) ELSE "ERROR")

\* a run that classified every row and ended without shutdown, in which row 2 completed before
\* row 0: rows 1 and 2, whose labels differ, shared the first buffer and row 0
\* was alone in the final flush
C23_Witness ==
    /\ pc = "done"
    /\ ~shutdown_flag
    /\ Len(calls) = 2
    /\ calls[1].items = {1, 2}
    /\ calls[2].items = {0}
    /\ LabelOf(1) # LabelOf(2)
    /\ \A i \in Rows : df[i].confidence.t = "str"

\* C24: in 2_detect_tents_v2.py, when a run starts from an intermediate
\* checkpoint that save_intermediate wrote to the end, the rows it submits
\* are exactly the rows of the table without a yes/no label: the rows never
\* attempted and the rows marked 'ERROR'.
C24_ResumeSelectsUnlabelled ==
    [][(pc = "load" /\ pc' = "loop" /\ Checkpoint.exists /\ Checkpoint.closed) =>
          DOMAIN todo' = {i \in DOMAIN df' : ~HasLabel(df'[i].prediction)}]_vars

\* C26: under a fair scheduler every run ends, by the end of the script or by
\* an exception, whether or not a signal arrives; no fetch_image call makes
\* more than MAX_RETRIES attempts; and a run that ends normally has written
\* the final intermediate checkpoint, which holds the whole table.
C26_Terminates ==
    /\ <>(pc \in {"done", "raised"})
    /\ [](pc = "load" => \A s \in Scripts : FetchImage(s).attempts <= MAX_RETRIES)
    /\ [](pc = "done" =>
             /\ ~exc
             /\ saves # <<>> /\ saves[Len(saves)] = "output"
             /\ CheckpointCurrent
             /\ \A i \in DOMAIN todo : fstate[i] = "done")

\* a run that was told to shut down has ended normally: the loop was left by
\* the break, a fetch that the loop never consumed was run to its end while
\* the with block was left, and the final checkpoint was written
C26_Witness ==
    /\ pc = "done"
    /\ shutdown_flag
    /\ saves = <<"break", "output">>
    /\ \E i \in DOMAIN todo : i \notin yielded /\ fstate[i] = "done"

====
